---- MODULE Spec2Model ----
(***************************************************************************)
(* Model of the dataset adapters and the model registry lookup of the      *)
(* transfer-learning toolkit:                                               *)
(*   - TFCustomImageClassificationDataset.preprocess                        *)
(*   - TorchvisionImageClassificationDataset.__init__                       *)
(*   - model_factory.get_supported_models                                   *)
(* Each component has its own specification (SpecTF, SpecTV, SpecMF); the   *)
(* variables of the other components stay at their idle values.             *)
(***************************************************************************)
EXTENDS Integers, Sequences, FiniteSets, TLC

VARIABLES self, last, hist, tv, mf

vars == <<self, last, hist, tv, mf>>

\* ------------------------------------------------------------------ bounds
\* Largest integer passed as image_size / batch_size.
MaxArg == 2
\* Number of preprocess calls made on one instance.
MaxCalls == 3
\* Longest split list given to the torchvision constructor.
MaxSplitLen == 3
\* Largest number of items in one split of a torchvision dataset.
MaxLen == 2

\* ------------------------------------------------------------ Python values
\* A Python value is tagged with its type; v holds the number it compares as
\* (True is 1 and False is 0, as for Python's bool, a subclass of int).
PyInt(n) == [t |-> "int", v |-> n]
PyBool(b) == [t |-> "bool", v |-> IF b THEN 1 ELSE 0]
PyNone == [t |-> "NoneType", v |-> 0]
PyStr == [t |-> "str", v |-> 0]

\* The arguments tried: integers from -1 up, the two booleans, and one value
\* that is no int (a str).
PyValues ==
    {PyInt(n) : n \in -1..MaxArg} \cup {PyBool(TRUE), PyBool(FALSE), PyStr}

\* isinstance(x, int)
IsInstanceInt(x) == x.t \in {"int", "bool"}

\* =====================================================================
\* TFCustomImageClassificationDataset
\* =====================================================================

\* A tf.data.Dataset is the sequence of transformations applied to the files
\* read from the directory; an attribute holding None has def = FALSE.
NoDataset == [def |-> FALSE, stages |-> <<>>]
RawDataset == [def |-> TRUE, stages |-> <<>>]

split_list == <<"_dataset", "_train_subset", "_validation_subset", "_test_subset">>

SplitAttrs == {split_list[i] : i \in 1..Len(split_list)}

\* self._preprocessed: None, or the dictionary of the two sizes.
NotPreprocessed == [set |-> FALSE, image_size |-> PyNone, batch_size |-> PyNone]

\* Truth value of self._preprocessed: None is false, the two-key dict is true.
PreprocessedTruthy(p) == p.set

\* Truth value of a dataset attribute: None is false, a tf.data.Dataset is true.
DatasetTruthy(d) == d.def

\* tf.data.AUTOTUNE
AUTOTUNE == PyInt(-1)

Stage(op, arg) == [op |-> op, arg |-> arg]

Append2(s, a, b) == Append(Append(s, a), b)

\* Mutants of the checks and of the loop body of preprocess.
AlreadyPreprocessed_never(me) == FALSE

AlreadyPreprocessed(me) == PreprocessedTruthy(me._preprocessed)

BadBatchSize(batch_size) == ~IsInstanceInt(batch_size) \/ batch_size.v < 1

BadImageSize(image_size) == ~IsInstanceInt(image_size) \/ image_size.v < 1

DatasetUndefined_never(me) == FALSE

DatasetUndefined(me) ==
    ~(\/ DatasetTruthy(me._dataset)
      \/ DatasetTruthy(me._train_subset)
      \/ DatasetTruthy(me._validation_subset)
      \/ DatasetTruthy(me._test_subset))

\* The names of split_list whose attribute is not None, in list order.
subsets(me) == SelectSeq(split_list, LAMBDA s : DatasetTruthy(me[s]))

PreprocessSubset_batch_first(d, preprocessed, image_size, batch_size) ==
    [d EXCEPT !.stages =
        Append2(Append2(d.stages, Stage("batch", batch_size), Stage("map", image_size)),
                Stage("cache", PyNone), Stage("prefetch", AUTOTUNE))]

\* One pass of the loop body on one attribute.
PreprocessSubset(d, preprocessed, image_size, batch_size) ==
    LET mapped == IF ~PreprocessedTruthy(preprocessed)
                  THEN Append2(d.stages, Stage("map", image_size), Stage("cache", PyNone))
                  ELSE d.stages
    IN [d EXCEPT !.stages =
            Append2(mapped, Stage("batch", batch_size), Stage("prefetch", AUTOTUNE))]

Raise(me, exc, msg) == [self |-> me, exc |-> exc, msg |-> msg]

Return(me) == [self |-> me, exc |-> "none", msg |-> ""]

\* The transformations and the final assignment of preprocess.
Transform(me, image_size, batch_size) ==
    LET todo == {subsets(me)[i] : i \in 1..Len(subsets(me))}
        done == [a \in DOMAIN me |->
                    IF a \in todo
                    THEN PreprocessSubset(me[a], me._preprocessed, image_size, batch_size)
                    ELSE me[a]]
    IN [done EXCEPT !._preprocessed =
            [set |-> TRUE, image_size |-> image_size, batch_size |-> batch_size]]

\* Mutant: the argument checks run after the transformations.
preprocess_checks_late(me, image_size, batch_size) ==
    IF AlreadyPreprocessed(me)
    THEN Raise(me, "ValueError", "Data has already been preprocessed")
    ELSE IF DatasetUndefined(me)
    THEN Raise(me, "ValueError", "Unable to preprocess, because the dataset hasn't been defined.")
    ELSE IF BadBatchSize(batch_size)
    THEN Raise(Transform(me, image_size, batch_size), "ValueError",
               "batch_size should be an positive integer")
    ELSE IF BadImageSize(image_size)
    THEN Raise(Transform(me, image_size, batch_size), "ValueError",
               "image_size should be an positive integer")
    ELSE Return(Transform(me, image_size, batch_size))

\* preprocess(image_size, batch_size): the instance afterwards and the
\* exception raised ("none" when the call returns).
preprocess(me, image_size, batch_size) ==
    IF AlreadyPreprocessed(me)
    THEN Raise(me, "ValueError", "Data has already been preprocessed")
    ELSE IF BadBatchSize(batch_size)
    THEN Raise(me, "ValueError", "batch_size should be an positive integer")
    ELSE IF BadImageSize(image_size)
    THEN Raise(me, "ValueError", "image_size should be an positive integer")
    ELSE IF DatasetUndefined(me)
    THEN Raise(me, "ValueError", "Unable to preprocess, because the dataset hasn't been defined.")
    ELSE Return(Transform(me, image_size, batch_size))

\* The instance after __init__; the subsets are None until a split defines
\* them, and an attribute may have been set or cleared by the caller.
NewInstance(ds, train, val, test) ==
    [_dataset |-> ds, _train_subset |-> train, _validation_subset |-> val,
     _test_subset |-> test, _preprocessed |-> NotPreprocessed]

\* The info property.
info(me) == [preprocessing_info |-> me._preprocessed]

TVIdle == [pc |-> "idle"]
MFIdle == [pc |-> "idle"]

InitTF ==
    /\ \E ds, train, val, test \in {NoDataset, RawDataset} :
          self = NewInstance(ds, train, val, test)
    /\ last = [called |-> FALSE, image_size |-> PyNone, batch_size |-> PyNone,
               exc |-> "none", msg |-> "", before |-> self]
    /\ hist = [ok |-> 0, raised |-> 0]
    /\ tv = TVIdle
    /\ mf = MFIdle

\* One call of preprocess by the caller, with any two Python values.
Preprocess ==
    /\ hist.ok + hist.raised < MaxCalls
    /\ \E image_size, batch_size \in PyValues :
          LET r == preprocess(self, image_size, batch_size) IN
          /\ self' = r.self
          /\ last' = [called |-> TRUE, image_size |-> image_size, batch_size |-> batch_size,
                      exc |-> r.exc, msg |-> r.msg, before |-> self]
          /\ hist' = IF r.exc = "none"
                     THEN [hist EXCEPT !.ok = @ + 1]
                     ELSE [hist EXCEPT !.raised = @ + 1]
    /\ UNCHANGED <<tv, mf>>

NextTF == Preprocess

SpecTF == InitTF /\ [][NextTF]_vars

\* ------------------------------------------------------------ claims (TF)
ValidArg(x) == x.t \in {"int", "bool"} /\ x.v >= 1

AllUndefined(me) == \A a \in SplitAttrs : ~me[a].def

Pipeline(image_size, batch_size) ==
    <<Stage("map", image_size), Stage("cache", PyNone),
      Stage("batch", batch_size), Stage("prefetch", AUTOTUNE)>>

Count(s, op) == Cardinality({i \in 1..Len(s) : s[i].op = op})

\* C1: once a call of preprocess has returned, every later call on the same
\* instance raises ValueError, whatever its arguments: a call that returns is
\* the first one that did, and every other call made since raised ValueError.
C1_SecondPreprocessRaises ==
    (last.called /\ hist.ok >= 1) =>
        IF last.exc = "none" THEN hist.ok = 1 ELSE last.exc = "ValueError"

C1_Witness ==
    /\ last.called /\ hist.ok = 1
    /\ PreprocessedTruthy(last.before._preprocessed)
    /\ ValidArg(last.image_size) /\ ValidArg(last.batch_size)
    /\ last.exc = "ValueError"

\* C3: preprocess on an instance whose four dataset attributes are all None
\* raises ValueError and leaves the instance not preprocessed, for every
\* image_size and batch_size.
C3_UndefinedDatasetRaises ==
    (last.called /\ AllUndefined(last.before)) =>
        /\ last.exc = "ValueError"
        /\ ~PreprocessedTruthy(self._preprocessed)
        /\ info(self).preprocessing_info = NotPreprocessed

C3_Witness ==
    /\ last.called /\ AllUndefined(last.before)
    /\ ValidArg(last.image_size) /\ ValidArg(last.batch_size)
    /\ last.exc = "ValueError"

\* C7: a call that returns has put every attribute that was defined through
\* map, cache, batch(batch_size), prefetch in that order and has left the
\* undefined ones undefined; no attribute ever holds a stage twice.
C7_StagesOnceInOrder ==
    /\ (last.called /\ last.exc = "none") =>
          \A a \in SplitAttrs :
             IF last.before[a].def
             THEN self[a] = [def |-> TRUE,
                             stages |-> last.before[a].stages
                                          \o Pipeline(last.image_size, last.batch_size)]
             ELSE self[a] = NoDataset
    /\ \A a \in SplitAttrs :
          /\ \A op \in {"map", "cache", "batch", "prefetch"} : Count(self[a].stages, op) <= 1
          /\ ~self[a].def => self[a].stages = <<>>

C7_Witness ==
    /\ last.called /\ hist.ok = 1 /\ hist.raised >= 1
    /\ self._dataset.def /\ ~self._test_subset.def /\ self._train_subset.def
    /\ self._train_subset.stages = Pipeline(PyInt(2), PyInt(1))

\* C10: a call that raises leaves the four dataset attributes and the
\* preprocessing info as they were; and on an instance not yet preprocessed
\* (with a dataset defined, so that the call could succeed at all), a call
\* with valid arguments made after rejected calls returns and records its own
\* image_size and batch_size, as it would have done without them.
C10_RaiseLeavesStateUnchanged ==
    /\ (last.called /\ last.exc # "none") =>
          /\ self = last.before
          /\ info(self) = info(last.before)
    /\ (/\ last.called /\ hist.raised >= 1
        /\ ~PreprocessedTruthy(last.before._preprocessed)
        /\ ~AllUndefined(last.before)
        /\ ValidArg(last.image_size) /\ ValidArg(last.batch_size)) =>
          /\ last.exc = "none"
          /\ info(self).preprocessing_info =
                [set |-> TRUE, image_size |-> last.image_size, batch_size |-> last.batch_size]

C10_Witness ==
    /\ last.called /\ last.exc = "none" /\ hist.raised = 2
    /\ info(self).preprocessing_info =
          [set |-> TRUE, image_size |-> PyInt(2), batch_size |-> PyBool(TRUE)]

\* =====================================================================
\* TorchvisionImageClassificationDataset
\* =====================================================================

DATASETS == {"CIFAR10", "Food101", "CIFAR100", "Country211", "DTD", "FGVCAircraft", "RenderedSST2"}

\* An element of the split argument: a str with its text, or another object.
StrElem(v) == [isstr |-> TRUE, v |-> v]
NonStrElem == [isstr |-> FALSE, v |-> "1"]

SplitNames == {"train", "validation", "test"}

\* A dataset object is the sequence of its items, each labelled with the
\* split it was loaded from; None has def = FALSE.
NoData == [def |-> FALSE, items |-> <<>>]
Data(items) == [def |-> TRUE, items |-> items]
Items(name, n) == [i \in 1..n |-> name]

\* len(dataset)
len(d) == Len(d.items)

\* Truth value of a dataset attribute: None is false, and an object with
\* __len__ is true when its length is not zero.
Truthy(d) == d.def /\ len(d) > 0

\* torch.utils.data.ConcatDataset([a, b])
ConcatDataset(a, b) == Data(a.items \o b.items)

\* range(a, b); None has def = FALSE.
NoRange == [def |-> FALSE, start |-> 0, stop |-> 0]
range(a, b) == [def |-> TRUE, start |-> a, stop |-> b]

\* A torchvision dataset class: whether its constructor takes split= and
\* which values it accepts, whether it takes train=, and the size of each
\* split it holds (a catalogue dataset has no empty split).
\* dataset_class(dataset_dir, split=value) / dataset_class(dataset_dir, train=value)
dataset_class(cls, kw, value) ==
    IF kw = "split"
    THEN IF ~cls.has_split
         THEN [exc |-> "TypeError", data |-> NoData]
         ELSE IF value \notin cls.splits
         THEN [exc |-> "ValueError", data |-> NoData]
         ELSE [exc |-> "none",
               data |-> Data(Items(IF value = "val" THEN "validation" ELSE value,
                                   cls.size[value]))]
    ELSE IF ~cls.has_train
         THEN [exc |-> "TypeError", data |-> NoData]
         ELSE [exc |-> "none",
               data |-> IF value = "True"
                        THEN Data(Items("train", cls.size["train"]))
                        ELSE Data(Items("test", cls.size["test"]))]

\* The instance under construction, the exception in flight and the calls
\* made to the dataset class so far.
Unconstructed ==
    [exc |-> "none", msg |-> "", attrs_set |-> FALSE, calls |-> <<>>,
     _dataset |-> NoData, _train_indices |-> NoRange, _validation_indices |-> NoRange,
     _test_indices |-> NoRange, _validation_type |-> "unset",
     loaders |-> "not made", info_size |-> -1]

Throw(ctx, exc, msg) == [ctx EXCEPT !.exc = exc, !.msg = msg]

Called(ctx, kw, value) == [ctx EXCEPT !.calls = Append(@, <<kw, value>>)]

Contains(split, name) == \E i \in 1..Len(split.items) : split.items[i] = StrElem(name)

\* Mutant: only the first element of split is looked at.
ValidateSplit_first_only(ctx, split) ==
    IF ~split.islist
    THEN Throw(ctx, "ValueError", "Value of split argument must be a list.")
    ELSE IF Len(split.items) > 0
            /\ (~split.items[1].isstr \/ split.items[1].v \notin {"train", "validation", "test"})
    THEN Throw(ctx, "ValueError",
               "Split argument can only contain these strings: train, validation, test.")
    ELSE ctx

\* The checks of the split argument.
ValidateSplit(ctx, split) ==
    IF ~split.islist
    THEN Throw(ctx, "ValueError", "Value of split argument must be a list.")
    ELSE IF \E i \in 1..Len(split.items) :
               ~split.items[i].isstr \/ split.items[i].v \notin {"train", "validation", "test"}
    THEN Throw(ctx, "ValueError",
               "Split argument can only contain these strings: train, validation, test.")
    ELSE ctx

\* The check of dataset_name.
ValidateName(ctx, dataset_name) ==
    IF ctx.exc # "none" THEN ctx
    ELSE IF dataset_name \notin DATASETS
    THEN Throw(ctx, "ValueError", "Dataset name is not supported.")
    ELSE ctx

\* The base class constructor and the attribute defaults.
SetDefaults(ctx) ==
    IF ctx.exc # "none" THEN ctx
    ELSE [ctx EXCEPT !.attrs_set = TRUE, !._dataset = NoData, !._train_indices = NoRange,
                     !._validation_indices = NoRange, !._test_indices = NoRange]

\* An exception of the dataset class that no handler catches.
Escapes(ctx, r) == Throw(ctx, r.exc, "raised by the dataset class")

\* len(split) == 1
SingleSplit(ctx, cls, split) ==
    LET s == split.items[1].v
        done ==
          IF s = "train"
          THEN LET a == dataset_class(cls, "split", "train")
                   c1 == Called(ctx, "split", "train")
               IN IF a.exc = "none" THEN [c1 EXCEPT !._dataset = a.data]
                  ELSE IF a.exc = "TypeError"
                  THEN LET b == dataset_class(cls, "train", "True")
                           c2 == Called(c1, "train", "True")
                       IN IF b.exc = "none" THEN [c2 EXCEPT !._dataset = b.data]
                          ELSE Escapes(c2, b)
                  ELSE Escapes(c1, a)
          ELSE IF s = "validation"
          THEN LET a == dataset_class(cls, "split", "val")
                   c1 == Called(ctx, "split", "val")
               IN IF a.exc = "none" THEN [c1 EXCEPT !._dataset = a.data]
                  ELSE IF a.exc = "TypeError"
                  THEN Throw(c1, "ValueError", "No validation split was found for this dataset")
                  ELSE Escapes(c1, a)
          ELSE IF s = "test"
          THEN LET a == dataset_class(cls, "split", "test")
                   c1 == Called(ctx, "split", "test")
               IN IF a.exc = "none" THEN [c1 EXCEPT !._dataset = a.data]
                  ELSE IF a.exc = "TypeError"
                  THEN LET b == dataset_class(cls, "train", "False")
                           c2 == Called(c1, "train", "False")
                       IN IF b.exc = "none" THEN [c2 EXCEPT !._dataset = b.data]
                          ELSE IF b.exc = "TypeError"
                          THEN Throw(c2, "ValueError", "No test split was found for this dataset")
                          ELSE Escapes(c2, b)
                  ELSE Escapes(c1, a)
          ELSE ctx
    IN IF done.exc # "none" THEN done ELSE [done EXCEPT !._validation_type = "recall"]

\* if 'train' in split
TrainPart(ctx, cls, split) ==
    IF ctx.exc # "none" \/ ~Contains(split, "train") THEN ctx
    ELSE LET a == dataset_class(cls, "split", "train")
             c1 == Called(ctx, "split", "train")
             loaded == IF a.exc = "none" THEN [c1 EXCEPT !._dataset = a.data]
                       ELSE IF a.exc = "TypeError"
                       THEN LET b == dataset_class(cls, "train", "True")
                                c2 == Called(c1, "train", "True")
                            IN IF b.exc = "none" THEN [c2 EXCEPT !._dataset = b.data]
                               ELSE Escapes(c2, b)
                       ELSE Escapes(c1, a)
         IN IF loaded.exc # "none" THEN loaded
            ELSE [loaded EXCEPT !._train_indices = range(0, len(loaded._dataset))]

\* if 'validation' in split
ValidationPart(ctx, cls, split) ==
    IF ctx.exc # "none" \/ ~Contains(split, "validation") THEN ctx
    ELSE LET a == dataset_class(cls, "split", "val")
             c1 == Called(ctx, "split", "val")
         IN IF a.exc = "ValueError"
            THEN Throw(c1, "ValueError", "No validation split was found for this dataset")
            ELSE IF a.exc # "none" THEN Escapes(c1, a)
            ELSE LET validation_data == a.data
                     validation_length == len(validation_data)
                 IN IF Truthy(c1._dataset)
                    THEN LET current_length == len(c1._dataset)
                         IN [c1 EXCEPT
                               !._dataset = ConcatDataset(c1._dataset, validation_data),
                               !._validation_indices =
                                   range(current_length, current_length + validation_length)]
                    ELSE [c1 EXCEPT !._dataset = validation_data,
                                    !._validation_indices = range(0, validation_length)]

\* The local test_data: unbound until one of the two assignments is reached.
Unbound == [bound |-> FALSE, value |-> NoData]
Bound(d) == [bound |-> TRUE, value |-> d]

\* The finally block of the test part. It runs whether or not an exception
\* is in flight; reading test_data while it is unbound raises
\* UnboundLocalError, which replaces the exception in flight.
TestFinally(ctx, test_data) ==
    IF ~test_data.bound
    THEN Throw(ctx, "UnboundLocalError",
               "local variable 'test_data' referenced before assignment")
    ELSE LET test_length == len(test_data.value)
         IN IF Truthy(ctx._dataset)
            THEN LET current_length == len(ctx._dataset)
                 IN [ctx EXCEPT
                       !._dataset = ConcatDataset(ctx._dataset, test_data.value),
                       !._test_indices = range(current_length, current_length + test_length)]
            ELSE [ctx EXCEPT !._dataset = test_data.value,
                             !._validation_indices = range(0, test_length)]

\* if 'test' in split
TestPart(ctx, cls, split) ==
    IF ctx.exc # "none" \/ ~Contains(split, "test") THEN ctx
    ELSE LET a == dataset_class(cls, "split", "test")
             c1 == Called(ctx, "split", "test")
         IN IF a.exc = "none" THEN TestFinally(c1, Bound(a.data))
            ELSE IF a.exc = "TypeError"
            THEN LET b == dataset_class(cls, "train", "False")
                     c2 == Called(c1, "train", "False")
                 IN IF b.exc = "none" THEN TestFinally(c2, Bound(b.data))
                    ELSE IF b.exc = "ValueError"
                    THEN TestFinally(Throw(c2, "ValueError",
                                           "No test split was found for this dataset"),
                                     Unbound)
                    ELSE TestFinally(Escapes(c2, b), Unbound)
            ELSE TestFinally(Escapes(c1, a), Unbound)

\* len(split) != 1
MultiSplit(ctx, cls, split) ==
    LET done == TestPart(ValidationPart(TrainPart(ctx, cls, split), cls, split), cls, split)
    IN IF done.exc # "none" THEN done ELSE [done EXCEPT !._validation_type = "defined_split"]

\* The call of _make_data_loaders and the assignment of _info.
Finish(ctx) ==
    IF ctx.exc # "none" THEN ctx
    ELSE LET made == [ctx EXCEPT !.loaders =
                         IF ctx._dataset.def THEN "made" ELSE "made with None"]
         IN IF ~made._dataset.def
            THEN Throw(made, "TypeError", "object of type 'NoneType' has no len()")
            ELSE [made EXCEPT !.info_size = len(made._dataset)]

\* TorchvisionImageClassificationDataset(dataset_dir, dataset_name, split)
__init__(split, dataset_name, cls) ==
    LET checked == SetDefaults(ValidateName(ValidateSplit(Unconstructed, split), dataset_name))
    IN IF checked.exc # "none" THEN checked
       ELSE IF Len(split.items) = 1
       THEN Finish(SingleSplit(checked, cls, split))
       ELSE Finish(MultiSplit(checked, cls, split))

\* ----------------------------------------------------- inputs (torchvision)
SeqsUpTo(S, n) == UNION {[1..k -> S] : k \in 0..n}

Elems == {StrElem(v) : v \in SplitNames \cup {"val"}} \cup {NonStrElem}

NotAList == [islist |-> FALSE, items |-> <<>>]

Splits == {NotAList} \cup {[islist |-> TRUE, items |-> s] : s \in SeqsUpTo(Elems, MaxSplitLen)}

ClassSplits == {"train", "val", "test"}

Classes ==
    {[has_split |-> hs, splits |-> sp, has_train |-> ht, size |-> sz] :
        hs \in BOOLEAN, sp \in SUBSET ClassSplits, ht \in BOOLEAN,
        sz \in [ClassSplits -> 1..MaxLen]} \ 
    {c \in [has_split : {FALSE}, splits : (SUBSET ClassSplits) \ {{}}, has_train : BOOLEAN,
            size : [ClassSplits -> 1..MaxLen]] : TRUE}

TFIdleSelf == NewInstance(NoDataset, NoDataset, NoDataset, NoDataset)

InitTV ==
    /\ \E split \in Splits, dataset_name \in {"CIFAR10", "MNIST"}, cls \in Classes :
          tv = [pc |-> "new", split |-> split, dataset_name |-> dataset_name, cls |-> cls,
                obj |-> Unconstructed]
    /\ self = TFIdleSelf
    /\ last = [called |-> FALSE, image_size |-> PyNone, batch_size |-> PyNone,
               exc |-> "none", msg |-> "", before |-> self]
    /\ hist = [ok |-> 0, raised |-> 0]
    /\ mf = MFIdle

\* The constructor call.
Construct ==
    /\ tv.pc = "new"
    /\ tv' = [tv EXCEPT !.pc = "done",
                        !.obj = __init__(tv.split, tv.dataset_name, tv.cls)]
    /\ UNCHANGED <<self, last, hist, mf>>

NextTV == Construct

SpecTV == InitTV /\ [][NextTV]_vars

\* ---------------------------------------------------- claims (torchvision)
GoodElem(e) == e.isstr /\ e.v \in SplitNames

BadSplit(split) == ~split.islist \/ \E i \in 1..Len(split.items) : ~GoodElem(split.items[i])

Constructed == tv.pc = "done"

\* The arguments pass the constructor's checks.
ArgsAccepted == ~BadSplit(tv.split) /\ tv.dataset_name \in DATASETS

Requested(name) == \E i \in 1..Len(tv.split.items) : tv.split.items[i] = StrElem(name)

\* What the dataset class offers.
HasTrainSplit(cls) ==
    dataset_class(cls, "split", "train").exc = "none"
    \/ (dataset_class(cls, "split", "train").exc = "TypeError"
        /\ dataset_class(cls, "train", "True").exc = "none")

HasValidationSplit(cls) == dataset_class(cls, "split", "val").exc = "none"

HasTestSplit(cls) ==
    dataset_class(cls, "split", "test").exc = "none"
    \/ dataset_class(cls, "train", "False").exc = "none"

\* C2: a split argument that is no list, or a list with an element that is
\* not one of 'train', 'validation', 'test', makes the constructor raise
\* ValueError before it calls the dataset class and before it sets an
\* attribute.
C2_BadSplitRaisesFirst ==
    (Constructed /\ BadSplit(tv.split)) =>
        /\ tv.obj.exc = "ValueError"
        /\ tv.obj.msg \in {"Value of split argument must be a list.",
                           "Split argument can only contain these strings: train, validation, test."}
        /\ tv.obj.calls = <<>>
        /\ ~tv.obj.attrs_set
        /\ tv.obj = Throw(Unconstructed, "ValueError", tv.obj.msg)

C2_Witness ==
    /\ Constructed
    /\ tv.split = [islist |-> TRUE, items |-> <<StrElem("train"), StrElem("val")>>]
    /\ tv.cls.has_split /\ tv.cls.splits = ClassSplits
    /\ tv.obj.exc = "ValueError" /\ tv.obj.calls = <<>>

SizeOf(cls, name) == cls.size[IF name = "validation" THEN "val" ELSE name]

IndicesOf(obj, name) ==
    CASE name = "train" -> obj._train_indices
      [] name = "validation" -> obj._validation_indices
      [] name = "test" -> obj._test_indices

\* Where the data of a split starts in the concatenation train, validation, test.
OffsetOf(cls, name) ==
    LET t == IF Requested("train") THEN SizeOf(cls, "train") ELSE 0
        v == IF Requested("validation") THEN SizeOf(cls, "validation") ELSE 0
    IN CASE name = "train" -> 0
         [] name = "validation" -> t
         [] name = "test" -> t + v

\* C6: after a successful construction with more than one entry in split,
\* the index range of a split is defined exactly when the split was
\* requested, has the length of the split's data, and the defined ranges
\* tile positions 0..len(_dataset)-1 in the order train, validation, test.
C6_IndexRangesTileDataset ==
    (Constructed /\ tv.obj.exc = "none" /\ Len(tv.split.items) > 1) =>
        /\ \A n \in SplitNames :
              /\ IndicesOf(tv.obj, n).def <=> Requested(n)
              /\ Requested(n) =>
                    IndicesOf(tv.obj, n) =
                        range(OffsetOf(tv.cls, n), OffsetOf(tv.cls, n) + SizeOf(tv.cls, n))
              /\ IndicesOf(tv.obj, n).def =>
                    \A p \in IndicesOf(tv.obj, n).start .. IndicesOf(tv.obj, n).stop - 1 :
                        p + 1 \in 1..len(tv.obj._dataset) /\ tv.obj._dataset.items[p + 1] = n
        /\ \A p \in 0 .. len(tv.obj._dataset) - 1 :
              Cardinality({n \in SplitNames :
                              /\ IndicesOf(tv.obj, n).def
                              /\ p \in IndicesOf(tv.obj, n).start .. IndicesOf(tv.obj, n).stop - 1}) = 1

\* C8: when the dataset class has no validation split (split='val' is
\* rejected with TypeError or ValueError) and every other requested split
\* exists, a constructor call that passes the argument checks with
\* 'validation' in split ends in ValueError.
C8_NoValidationSplitIsValueError ==
    (/\ Constructed /\ ArgsAccepted /\ Requested("validation")
     /\ ~HasValidationSplit(tv.cls)
     /\ Requested("train") => HasTrainSplit(tv.cls)
     /\ Requested("test") => HasTestSplit(tv.cls)) =>
        tv.obj.exc = "ValueError"

\* C9: when the dataset class has no test split (split='test' and
\* train=False both fail) and every other requested split exists, a
\* constructor call that passes the argument checks with 'test' in split
\* raises ValueError 'No test split was found for this dataset'.
C9_NoTestSplitIsValueError ==
    (/\ Constructed /\ ArgsAccepted /\ Requested("test")
     /\ ~HasTestSplit(tv.cls)
     /\ Requested("train") => HasTrainSplit(tv.cls)
     /\ Requested("validation") => HasValidationSplit(tv.cls)) =>
        /\ tv.obj.exc = "ValueError"
        /\ tv.obj.msg = "No test split was found for this dataset"

\* The test split as the constructor looks it up: split='test', and
\* train=False when the class takes no split keyword.
TestSplitLoads(cls) ==
    dataset_class(cls, "split", "test").exc = "none"
    \/ (dataset_class(cls, "split", "test").exc = "TypeError"
        /\ dataset_class(cls, "train", "False").exc = "none")

\* Every split named in the split argument can be loaded from the class.
RequestedSplitsExist ==
    /\ Requested("train") => HasTrainSplit(tv.cls)
    /\ Requested("validation") => HasValidationSplit(tv.cls)
    /\ Requested("test") => TestSplitLoads(tv.cls)

\* C11: for every split argument that passes the checks (any list of the
\* three names, the empty list and lists with repeated names included) and
\* whose requested splits all exist, the constructor calls
\* _make_data_loaders with _dataset defined and finishes with the info size
\* equal to len(_dataset).
C11_ConstructorDefinesDataset ==
    (Constructed /\ ArgsAccepted /\ RequestedSplitsExist) =>
        /\ tv.obj.loaders = "made"
        /\ tv.obj._dataset.def
        /\ tv.obj.exc = "none"
        /\ tv.obj.info_size = len(tv.obj._dataset)

\* =====================================================================
\* model_factory.get_supported_models
\* =====================================================================

UseCaseType == {"image_classification", "text_classification", "question_answering"}

FrameworkType == {"tensorflow", "pytorch"}

ModelNames == {"efficientnet_b0", "bert_base"}

\* An optional string argument: None, or a str.
NoArg == [given |-> FALSE, v |-> ""]
StrArg(v) == [given |-> TRUE, v |-> v]

\* The registry: for each use case and model name, the frameworks the model
\* is registered for (none when the use case has no such model).
Registries ==
    {r \in [UseCaseType -> [ModelNames -> SUBSET FrameworkType]] :
        "tensorflow" \in r["image_classification"]["efficientnet_b0"]}

ModelHub(model, framework) ==
    [model_hub |-> IF framework = "tensorflow" THEN "TFHub" ELSE "torchvision"]

Failed(exc, prefix, value) == [exc |-> exc, msg |-> <<prefix, value>>, models |-> <<>>]

\* Mutant: the framework filter is not applied to the entries.
get_supported_models_unfiltered(registry, framework, use_case) ==
    IF framework.given /\ framework.v \notin FrameworkType
    THEN Failed("ValueError", "Unsupported framework: ", framework.v)
    ELSE IF use_case.given /\ use_case.v \notin UseCaseType
    THEN Failed("ValueError", "Unsupported use case: ", use_case.v)
    ELSE [exc |-> "none", msg |-> <<>>,
          models |->
            [uc \in (IF use_case.given THEN {use_case.v} ELSE UseCaseType) |->
                [m \in {n \in ModelNames : registry[uc][n] # {}} |->
                    [f \in registry[uc][m] |-> ModelHub(m, f)]]]]

\* Mutant: an unknown name selects nothing instead of raising.
get_supported_models_lenient(registry, framework, use_case) ==
    [exc |-> "none", msg |-> <<>>,
     models |->
        [uc \in (IF use_case.given THEN {use_case.v} \cap UseCaseType ELSE UseCaseType) |->
            [m \in {n \in ModelNames :
                        /\ registry[uc][n] # {}
                        /\ framework.given => framework.v \in registry[uc][n]} |->
                [f \in (IF framework.given THEN {framework.v} ELSE registry[uc][m]) |->
                    ModelHub(m, f)]]]]

\* get_supported_models(framework=None, use_case=None): the dictionary keyed
\* by use case, model name and framework, or the exception raised.
get_supported_models(registry, framework, use_case) ==
    IF framework.given /\ framework.v \notin FrameworkType
    THEN Failed("ValueError", "Unsupported framework: ", framework.v)
    ELSE IF use_case.given /\ use_case.v \notin UseCaseType
    THEN Failed("ValueError", "Unsupported use case: ", use_case.v)
    ELSE [exc |-> "none", msg |-> <<>>,
          models |->
            [uc \in (IF use_case.given THEN {use_case.v} ELSE UseCaseType) |->
                [m \in {n \in ModelNames :
                            /\ registry[uc][n] # {}
                            /\ framework.given => framework.v \in registry[uc][n]} |->
                    [f \in (IF framework.given THEN {framework.v} ELSE registry[uc][m]) |->
                        ModelHub(m, f)]]]]

\* The strings passed as framework and use_case: the supported names and
\* names that are neither.
ArgStrings ==
    FrameworkType \cup UseCaseType \cup {"torch", "imageclassification", "fantastic-potato"}

Args == {NoArg} \cup {StrArg(v) : v \in ArgStrings}

NotCalled == [exc |-> "none", msg |-> <<>>, models |-> <<>>]

InitMF ==
    /\ \E registry \in Registries, framework \in Args, use_case \in Args :
          mf = [pc |-> "new", registry |-> registry, framework |-> framework,
                use_case |-> use_case, result |-> NotCalled]
    /\ self = TFIdleSelf
    /\ last = [called |-> FALSE, image_size |-> PyNone, batch_size |-> PyNone,
               exc |-> "none", msg |-> "", before |-> self]
    /\ hist = [ok |-> 0, raised |-> 0]
    /\ tv = TVIdle

\* The call of get_supported_models.
GetSupportedModels ==
    /\ mf.pc = "new"
    /\ mf' = [mf EXCEPT !.pc = "done",
                        !.result = get_supported_models(mf.registry, mf.framework, mf.use_case)]
    /\ UNCHANGED <<self, last, hist, tv>>

NextMF == GetSupportedModels

SpecMF == InitMF /\ [][NextMF]_vars

\* ------------------------------------------------- claims (model factory)
\* C4: the dictionary returned has the one key use_case when use_case is
\* given and a key for every use case when it is None; when framework is
\* given, every model entry under every use case has the one key framework.
C4_FilteredKeys ==
    (mf.pc = "done" /\ mf.result.exc = "none") =>
        LET d == mf.result.models IN
        /\ mf.use_case.given => DOMAIN d = {mf.use_case.v}
        /\ ~mf.use_case.given => DOMAIN d = UseCaseType
        /\ mf.framework.given =>
              \A uc \in DOMAIN d : \A m \in DOMAIN d[uc] : DOMAIN d[uc][m] = {mf.framework.v}

C4_Witness ==
    /\ mf.pc = "done" /\ mf.result.exc = "none"
    /\ mf.framework = StrArg("pytorch") /\ mf.use_case = StrArg("image_classification")
    /\ mf.registry["image_classification"]["efficientnet_b0"] = FrameworkType
    /\ "efficientnet_b0" \in DOMAIN mf.result.models["image_classification"]

BadFramework == mf.framework.given /\ mf.framework.v \notin {"tensorflow", "pytorch"}

BadUseCase ==
    /\ mf.use_case.given
    /\ mf.use_case.v \notin {"image_classification", "text_classification", "question_answering"}

\* C5: a framework string or a use_case string that is not supported makes
\* get_supported_models raise ValueError with a message naming the bad value
\* and return no dictionary.
C5_UnknownNameRaises ==
    (mf.pc = "done" /\ (BadFramework \/ BadUseCase)) =>
        /\ mf.result.exc = "ValueError"
        /\ \/ BadFramework /\ mf.result.msg = <<"Unsupported framework: ", mf.framework.v>>
           \/ BadUseCase /\ mf.result.msg = <<"Unsupported use case: ", mf.use_case.v>>
        /\ DOMAIN mf.result.models = {}

C5_Witness ==
    /\ mf.pc = "done"
    /\ mf.framework = NoArg /\ mf.use_case = StrArg("tensorflow")
    /\ mf.result.exc = "ValueError"
    /\ mf.result.msg = <<"Unsupported use case: ", "tensorflow">>

====
